---- MODULE Spec2Model ----
(***************************************************************************)
(* Credibility scoring and vote aggregation of the fact-checking page.     *)
(*                                                                         *)
(* The component CollaborativeFactChecking keeps the React state           *)
(* stories, userVotes, selectedStory, analysis and loading; the service    *)
(* StoryDetectionService supplies fetchGlobalStories, analyzeStoryContent  *)
(* and updateStoryVote.  A handleVote activation is suspended at           *)
(* `await updateStoryVote(...)`; every activation keeps the closure it was *)
(* created with (the stories and userVotes of the render that produced     *)
(* the handler).  analyzeStoryContent is an async function without an      *)
(* await in its body, so its promise settles in the microtask that follows *)
(* the caller's synchronous code: setAnalysis runs before any other event, *)
(* and the actions below include it.                                       *)
(***************************************************************************)
EXTENDS Integers, Sequences, FiniteSets, TLC

VARIABLES stories, userVotes, loading, selectedStory, analysis,
          fetchedStories, serviceStories, calls,
          input, output, alert,
          pc, rawStories, completions, globalStories, candidate, kept

\* input and output are the argument and the result of a direct call of
\* analyzeStoryContent (specification SpecAnalyze); alert is the alert that
\* MisinformationAlerts builds from the same story. The page leaves them alone.
callVars == <<input, output, alert>>

\* The AI-backed service: pc is the position of a call of fetchGlobalStories,
\* rawStories what fetchNewsFromMultipleRegions returned, completions what the
\* chat completions came to, globalStories the result; candidate and kept are
\* the argument and the result of its filter callback called on one story.
aiVars == <<pc, rawStories, completions, globalStories, candidate, kept>>

vars == <<stories, userVotes, loading, selectedStory, analysis,
          fetchedStories, serviceStories, calls, input, output, alert,
          pc, rawStories, completions, globalStories, candidate, kept>>

\* Number of handleVote activations explored.
MaxCalls == 2

\* Number of handleVote activations explored where eventual completion is checked.
MaxFairCalls == 1

\* Longest list of articles the news API answers with.
MaxRaw == 2

\* Longest sources list and largest vote counter of the stories handed to
\* analyzeStoryContent directly.
MaxSources == 2
MaxVotes == 2

\* keyof Story['votes']
VoteTypes == {"credible", "suspicious", "fake"}

\* JavaScript null (useState<Story | null>(null), useState<AnalysisResult | null>(null)).
Null == [null |-> TRUE]

\* JavaScript undefined: what an async function without a return statement
\* fulfils its promise with.
Undefined == [undefined |-> TRUE]

\* The promise of a handleVote activation that has not finished.
Pending == [pending |-> TRUE]

----------------------------------------------------------------------------
(* Numbers.  A JavaScript number that the code obtains by a division is    *)
(* kept exact: a reduced fraction with a positive denominator, or one of   *)
(* the three results of a division by zero.                                *)

Abs(n) == IF n < 0 THEN -n ELSE n

RECURSIVE GCD(_, _)
GCD(a, b) == IF b = 0 THEN a ELSE GCD(b, a % b)

Div(n, d) ==
    IF d = 0
    THEN [kind |-> IF n = 0 THEN "NaN" ELSE IF n > 0 THEN "Infinity" ELSE "-Infinity",
          num |-> 0, den |-> 0]
    ELSE LET g == GCD(Abs(n), Abs(d))
             s == IF d < 0 THEN -1 ELSE 1
         IN  [kind |-> "finite", num |-> (s * n) \div g, den |-> (s * d) \div g]

\* Math.floor in the place of Math.round.
RoundPercent_Floor(x) ==
    IF x.kind = "finite"
    THEN ToString((100 * x.num) \div x.den)
    ELSE x.kind

\* Math.round(x * 100) as it is printed inside a template literal.
RoundPercent(x) ==
    IF x.kind = "finite"
    THEN ToString((200 * x.num + x.den) \div (2 * x.den))
    ELSE x.kind

----------------------------------------------------------------------------
(* Stories.                                                                *)

Story(id, sources, status, confidence, spread, region, category, votes) ==
    [id |-> id, sources |-> sources, verificationStatus |-> status,
     confidence |-> confidence, spread |-> spread, region |-> region,
     category |-> category, votes |-> votes]

Tally(c, s, f) == [credible |-> c, suspicious |-> s, fake |-> f]

\* fetchGlobalStories of the mock service: two stories with fixed tallies.
MockStories ==
    << Story("1", <<"reliable-news.com", "science-journal.org">>, "investigating",
             Div(7, 10), 60, "Global", "Science", Tally(45, 20, 5)),
       Story("2", <<"social-media.com">>, "fake",
             Div(95, 100), 85, "Global", "Health", Tally(10, 30, 150)) >>

\* fetchGlobalStories of the AI-backed service: every story starts with the
\* tally 0/0/0, has its article URL as id and only source, and no category.
AiStories ==
    << Story("url1", <<"url1">>, "unverified", Div(50, 1), 50, "US", "undefined",
             Tally(0, 0, 0)),
       Story("url2", <<"url2">>, "real", Div(1, 1), 100, "EU", "undefined",
             Tally(0, 0, 0)) >>

FetchResults == {MockStories, AiStories}

StoryIds(ss) == {ss[k].id : k \in DOMAIN ss}

\* stories.find(s => s.id === storyId); Null stands for undefined.
Find(ss, storyId) ==
    IF \E k \in DOMAIN ss : ss[k].id = storyId
    THEN ss[CHOOSE k \in DOMAIN ss :
                /\ ss[k].id = storyId
                /\ \A j \in DOMAIN ss : ss[j].id = storyId => k <= j]
    ELSE Null

TallySum(votes) == votes.credible + votes.suspicious + votes.fake

----------------------------------------------------------------------------
(* StoryDetectionService.                                                  *)

\* generateConclusion with 'debunked' answered like 'fake'.
generateConclusion_DebunkedAsFake(story) ==
    IF story.verificationStatus \in {"fake", "debunked"}
    THEN "This story has been identified as false based on multiple factors including lack of credible sources and contradiction with established facts."
    ELSE IF story.verificationStatus = "real"
    THEN "This story has been verified as true with strong evidence and expert consensus."
    ELSE "This story is currently under investigation. While some evidence suggests credibility, further verification is needed."

generateConclusion(story) ==
    IF story.verificationStatus = "fake"
    THEN "This story has been identified as false based on multiple factors including lack of credible sources and contradiction with established facts."
    ELSE IF story.verificationStatus = "real"
    THEN "This story has been verified as true with strong evidence and expert consensus."
    ELSE "This story is currently under investigation. While some evidence suggests credibility, further verification is needed."

\* sentiment with 'debunked' scored like 'fake'.
sentiment_DebunkedNegative(story) ==
    IF story.verificationStatus \in {"fake", "debunked"} THEN Div(-8, 10) ELSE Div(6, 10)

\* const sentiment = story.verificationStatus === 'fake' ? -0.8 : 0.6
sentiment(story) ==
    IF story.verificationStatus = "fake" THEN Div(-8, 10) ELSE Div(6, 10)

\* const topics = [story.category, 'Misinformation', 'Fact Checking']
topics(story) == <<story.category, "Misinformation", "Fact Checking">>

\* entities with the sources spread before the region.
entities_SourcesFirst(story) == story.sources \o <<story.region>>

\* const entities = [story.region, ...story.sources]
entities(story) == <<story.region>> \o story.sources

\* const credibilityScore = story.confidence
credibilityScore(story) == story.confidence

\* Source Reliability with the comparison written >= 1.
SourceReliability_AtLeastOne(story) ==
    LET n == Len(story.sources)
    IN  [name |-> "Source Reliability",
         score |-> IF n >= 1 THEN Div(8, 10) ELSE Div(4, 10),
         description |-> "Story has " \o ToString(n) \o " source"
                           \o (IF n >= 1 THEN "s" ELSE "")]

SourceReliability(story) ==
    LET n == Len(story.sources)
    IN  [name |-> "Source Reliability",
         score |-> IF n > 1 THEN Div(8, 10) ELSE Div(4, 10),
         description |-> "Story has " \o ToString(n) \o " source"
                           \o (IF n > 1 THEN "s" ELSE "")]

\* Spread Analysis scored by the spread itself: story.spread / 100.
SpreadAnalysis_NotInverted(story) ==
    [name |-> "Spread Analysis",
     score |-> Div(story.spread, 100),
     description |-> "Story has spread to " \o ToString(story.spread)
                       \o "% of potential audience"]

SpreadAnalysis(story) ==
    [name |-> "Spread Analysis",
     score |-> Div(100 - story.spread, 100),
     description |-> "Story has spread to " \o ToString(story.spread)
                       \o "% of potential audience"]

\* Community Consensus with votes.fake left out of the total.
CommunityConsensus_FakeOmitted(story) ==
    LET consensus == Div(story.votes.credible,
                         story.votes.credible + story.votes.suspicious)
    IN  [name |-> "Community Consensus",
         score |-> consensus,
         description |-> RoundPercent(consensus) \o "% of voters find it credible"]

CommunityConsensus(story) ==
    LET consensus == Div(story.votes.credible, TallySum(story.votes))
    IN  [name |-> "Community Consensus",
         score |-> consensus,
         description |-> RoundPercent(consensus) \o "% of voters find it credible"]

\* factors with Community Consensus listed first.
factors_ConsensusFirst(story) ==
    << CommunityConsensus(story), SourceReliability(story), SpreadAnalysis(story) >>

factors(story) ==
    << SourceReliability(story), SpreadAnalysis(story), CommunityConsensus(story) >>

evidence(story) ==
    << "Verification Status: " \o story.verificationStatus,
       "Confidence Score: " \o RoundPercent(story.confidence) \o "%",
       "Category: " \o story.category >>

analyzeStoryContent(story) ==
    [sentiment |-> sentiment(story),
     topics |-> topics(story),
     entities |-> entities(story),
     credibilityScore |-> credibilityScore(story),
     explanation |->
       [factors |-> factors(story),
        evidence |-> evidence(story),
        conclusion |-> generateConclusion(story)]]

----------------------------------------------------------------------------
(* The alert MisinformationAlerts.fetchAlerts builds from a story.         *)

\* x > n/d for a finite x and d > 0
GreaterThan(x, n, d) == x.kind = "finite" /\ x.num * d > n * x.den

\* story.confidence > 0.8 ? 'high' : story.confidence > 0.5 ? 'medium' : 'low'
severity(story) ==
    IF GreaterThan(story.confidence, 8, 10) THEN "high"
    ELSE IF GreaterThan(story.confidence, 5, 10) THEN "medium"
    ELSE "low"

\* The alert's conclusion with 'real' stories reported as under investigation.
alertConclusion_RealOmitted(story) ==
    IF story.verificationStatus = "fake"
    THEN "This story has been identified as false based on multiple factors including lack of credible sources and contradiction with established facts."
    ELSE "This story is currently under investigation. While some evidence suggests credibility, further verification is needed."

\* conclusion: story.verificationStatus === 'fake' ? ... : === 'real' ? ... : ...
alertConclusion(story) ==
    IF story.verificationStatus = "fake"
    THEN "This story has been identified as false based on multiple factors including lack of credible sources and contradiction with established facts."
    ELSE IF story.verificationStatus = "real"
    THEN "This story has been verified as true with strong evidence and expert consensus."
    ELSE "This story is currently under investigation. While some evidence suggests credibility, further verification is needed."

\* explanation: { factors: [...], evidence: [...], conclusion: ... } of the alert
alertExplanation(story) ==
    [factors |->
       << [name |-> "Source Reliability",
           score |-> IF Len(story.sources) > 1 THEN Div(8, 10) ELSE Div(4, 10),
           description |-> "Story has " \o ToString(Len(story.sources)) \o " source"
                             \o (IF Len(story.sources) > 1 THEN "s" ELSE "")],
          [name |-> "Spread Analysis",
           score |-> Div(100 - story.spread, 100),
           description |-> "Story has spread to " \o ToString(story.spread)
                             \o "% of potential audience"],
          [name |-> "Community Consensus",
           score |-> Div(story.votes.credible,
                         story.votes.credible + story.votes.suspicious
                           + story.votes.fake),
           description |->
             RoundPercent(Div(story.votes.credible,
                              story.votes.credible + story.votes.suspicious
                                + story.votes.fake))
               \o "% of voters find it credible"] >>,
     evidence |->
       << "Verification Status: " \o story.verificationStatus,
          "Confidence Score: " \o RoundPercent(story.confidence) \o "%",
          "Category: " \o story.category >>,
     conclusion |-> alertConclusion(story)]

\* stories.map(story => ({ id, ..., severity, category, ..., explanation }))
newAlert(story) ==
    [id |-> story.id,
     severity |-> severity(story),
     category |-> story.category,
     explanation |-> alertExplanation(story)]

\* The body of updateStoryVote after its timer: this.stories.find(...) and
\* story.votes[voteType]++ on the object found in the service's own list.
updateStoryVote(svc, storyId, voteType) ==
    [k \in DOMAIN svc |->
       IF svc[k].id = storyId /\ \A j \in DOMAIN svc : svc[j].id = storyId => k <= j
       THEN [svc[k] EXCEPT !.votes[voteType] = @ + 1]
       ELSE svc[k]]

----------------------------------------------------------------------------
(* The updater functions handleVote passes to setStories and setUserVotes. *)

\* The map without its id test: every story is incremented.
IncrementVote_EveryStory(prevStories, storyId, voteType) ==
    [k \in DOMAIN prevStories |->
       [prevStories[k] EXCEPT !.votes[voteType] = @ + 1]]

\* prevStories.map(story => story.id === storyId ? {... votes[voteType] + 1} : story)
IncrementVote(prevStories, storyId, voteType) ==
    [k \in DOMAIN prevStories |->
       IF prevStories[k].id = storyId
       THEN [prevStories[k] EXCEPT !.votes[voteType] = @ + 1]
       ELSE prevStories[k]]

\* prevStories.map(story => story.id === storyId ? {... votes[voteType] - 1} : story)
RevertVote(prevStories, storyId, voteType) ==
    [k \in DOMAIN prevStories |->
       IF prevStories[k].id = storyId
       THEN [prevStories[k] EXCEPT !.votes[voteType] = @ - 1]
       ELSE prevStories[k]]

\* RecordVote with the spread of prev forgotten: ({[storyId]: voteType}).
RecordVote_WithoutSpread(prev, storyId, voteType) ==
    [x \in {storyId} |-> voteType]

\* prev => ({...prev, [storyId]: voteType})
RecordVote(prev, storyId, voteType) ==
    [x \in DOMAIN prev \cup {storyId} |-> IF x = storyId THEN voteType ELSE prev[x]]

\* prev => { const newVotes = {...prev}; delete newVotes[storyId]; return newVotes }
DeleteVote(prev, storyId) ==
    [x \in DOMAIN prev \ {storyId} |-> prev[x]]

\* The guard left out: handleVote never returns early.
AlreadyVoted_NoGuard(votesOfUser, storyId) == FALSE

\* if (userVotes[storyId]) return;   -- a vote type is a non-empty string
AlreadyVoted(votesOfUser, storyId) == storyId \in DOMAIN votesOfUser

----------------------------------------------------------------------------
(* State machine.                                                          *)

NoVotes == [x \in {} |-> "credible"]

Init ==
    /\ stories = <<>>
    /\ userVotes = NoVotes
    /\ loading = TRUE
    /\ selectedStory = Null
    /\ analysis = Null
    /\ fetchedStories = <<>>
    /\ serviceStories = <<>>
    /\ calls = <<>>
    /\ input = Null
    /\ output = Null
    /\ alert = Null
    /\ pc = "start"
    /\ rawStories = <<>>
    /\ completions = <<>>
    /\ globalStories = <<>>
    /\ candidate = Null
    /\ kept = FALSE

\* The mount effect: fetchStories() awaits fetchGlobalStories and stores it.
FetchStories ==
    /\ loading
    /\ \E result \in FetchResults :
         /\ fetchedStories' = result
         /\ stories' = result
    /\ loading' = FALSE
    /\ UNCHANGED <<userVotes, selectedStory, analysis, serviceStories, calls, callVars, aiVars>>

\* A click on a story card: setSelectedStory(story); the effect on
\* [selectedStory] then runs analyzeStory(selectedStory) when the value changed.
HandleStoryClick(story) ==
    /\ ~loading
    /\ selectedStory' = story
    /\ analysis' = IF selectedStory # story THEN analyzeStoryContent(story) ELSE analysis
    /\ UNCHANGED <<stories, userVotes, loading, fetchedStories, serviceStories, calls,
                   callVars, aiVars>>

\* handleVote up to its await: the guard, then the call of updateStoryVote.
\* The activation keeps its arguments, the stories and userVotes of its
\* closure and its position; settled records which activations had already
\* finished when this one was issued; result is what the promise handleVote
\* returned to its caller has settled with (`return;` at the guard fulfils it
\* with undefined).
HandleVote(storyId, voteType) ==
    /\ ~loading
    /\ Len(calls) < MaxCalls
    /\ calls' = Append(calls,
                  [storyId |-> storyId, voteType |-> voteType,
                   stories |-> stories, userVotes |-> userVotes,
                   settled |-> {i \in DOMAIN calls : calls[i].status # "awaiting"},
                   status |-> IF AlreadyVoted(userVotes, storyId)
                              THEN "returned" ELSE "awaiting",
                   result |-> IF AlreadyVoted(userVotes, storyId)
                              THEN Undefined ELSE Pending])
    /\ UNCHANGED <<stories, userVotes, loading, selectedStory, analysis,
                   fetchedStories, serviceStories, callVars, aiVars>>

\* The promise of updateStoryVote never settles: the activation is not resumed.
Awaiting_NeverResumed(call) == FALSE

\* The activation is suspended at `await storyDetectionService.updateStoryVote(...)`
\* and is resumed when that promise settles.
Awaiting(call) == call.status = "awaiting"

\* updateStoryVote resolved: the rest of the try block; the function ends
\* without a return statement.
VoteResolved(i) ==
    LET c == calls[i]
        updatedStory == Find(c.stories, c.storyId)
    IN  /\ Awaiting(c)
        /\ serviceStories' = updateStoryVote(serviceStories, c.storyId, c.voteType)
        /\ stories' = IncrementVote(stories, c.storyId, c.voteType)
        /\ userVotes' = RecordVote(userVotes, c.storyId, c.voteType)
        /\ analysis' = IF updatedStory # Null
                       THEN analyzeStoryContent(updatedStory) ELSE analysis
        /\ calls' = [calls EXCEPT ![i].status = "voted", ![i].result = Undefined]
        /\ UNCHANGED <<loading, selectedStory, fetchedStories, callVars, aiVars>>

\* updateStoryVote threw: the catch block, which logs the error and does not
\* rethrow it; the function ends without a return statement.
VoteRejected(i) ==
    LET c == calls[i]
    IN  /\ Awaiting(c)
        /\ stories' = RevertVote(stories, c.storyId, c.voteType)
        /\ userVotes' = DeleteVote(userVotes, c.storyId)
        /\ calls' = [calls EXCEPT ![i].status = "failed", ![i].result = Undefined]
        /\ UNCHANGED <<loading, selectedStory, analysis, fetchedStories, serviceStories,
                       callVars, aiVars>>

Next ==
    \/ FetchStories
    \/ \E k \in DOMAIN stories : HandleStoryClick(stories[k])
    \/ \E k \in DOMAIN stories, voteType \in VoteTypes : HandleVote(stories[k].id, voteType)
    \/ \E i \in DOMAIN calls : VoteResolved(i)
    \/ \E i \in DOMAIN calls : VoteRejected(i)

Spec == Init /\ [][Next]_vars

\* Every promise of updateStoryVote settles: its timer fires and the promise
\* resolves, or the call throws; the suspended activation then runs on.
NextFair ==
    \/ FetchStories
    \/ \E k \in DOMAIN stories : HandleStoryClick(stories[k])
    \/ /\ Len(calls) < MaxFairCalls
       /\ \E k \in DOMAIN stories, voteType \in VoteTypes :
              HandleVote(stories[k].id, voteType)
    \/ \E i \in DOMAIN calls : VoteResolved(i)
    \/ \E i \in DOMAIN calls : VoteRejected(i)

SpecFair ==
    /\ Init
    /\ [][NextFair]_vars
    /\ \A i \in 1..MaxFairCalls :
          WF_vars(i \in DOMAIN calls /\ (VoteResolved(i) \/ VoteRejected(i)))

----------------------------------------------------------------------------
(* analyzeStoryContent called directly on a story.                         *)

\* Story['verificationStatus']
VerificationStatuses == {"fake", "real", "unverified", "investigating", "debunked"}

SourcePool == {"reliable-news.com", "social-media.com"}

SourceLists == UNION {[1..n -> SourcePool] : n \in 0..MaxSources}

TallyInputs ==
    {Tally(c, s, f) : c \in 0..MaxVotes, s \in 0..MaxVotes, f \in 0..MaxVotes}
        \cup {MockStories[1].votes}

StoryInputs ==
    {Story("1", sources, status, confidence, spread, "Global", "Science", votes) :
        sources \in SourceLists, status \in VerificationStatuses,
        confidence \in {Div(7, 10), Div(95, 100), Div(5, 8)}, spread \in {0, 60, 100},
        votes \in TallyInputs}

InitAnalyze ==
    /\ stories = <<>>
    /\ userVotes = NoVotes
    /\ loading = TRUE
    /\ selectedStory = Null
    /\ analysis = Null
    /\ fetchedStories = <<>>
    /\ serviceStories = <<>>
    /\ calls = <<>>
    /\ input \in StoryInputs
    /\ output = Null
    /\ alert = Null
    /\ pc = "start"
    /\ rawStories = <<>>
    /\ completions = <<>>
    /\ globalStories = <<>>
    /\ candidate = Null
    /\ kept = FALSE

\* const result = await storyDetectionService.analyzeStoryContent(story)
CallAnalyzeStoryContent ==
    /\ output = Null
    /\ output' = analyzeStoryContent(input)
    /\ UNCHANGED <<stories, userVotes, loading, selectedStory, analysis,
                   fetchedStories, serviceStories, calls, input, alert, aiVars>>

\* MisinformationAlerts.fetchAlerts: stories.map(story => ({...})) on the story
FetchAlerts ==
    /\ alert = Null
    /\ alert' = newAlert(input)
    /\ UNCHANGED <<stories, userVotes, loading, selectedStory, analysis,
                   fetchedStories, serviceStories, calls, input, output, aiVars>>

NextAnalyze ==
    \/ CallAnalyzeStoryContent
    \/ FetchAlerts

SpecAnalyze == InitAnalyze /\ [][NextAnalyze]_vars

----------------------------------------------------------------------------
(* The AI-backed service: fetchGlobalStories over the news API and the     *)
(* chat completions.                                                       *)

CharAt(text, k) == SubSeq(text, k, k)

\* The place of a character in an alphabet, 0 when it is not in it.
IndexIn(alphabet, ch) ==
    IF \E k \in 1..Len(alphabet) : CharAt(alphabet, k) = ch
    THEN CHOOSE k \in 1..Len(alphabet) : CharAt(alphabet, k) = ch
    ELSE 0

UpperCase == "ABCDEFGHIJKLMNOPQRSTUVWXYZ"
LowerCase == "abcdefghijklmnopqrstuvwxyz"
Digits == "0123456789"

\* analysis.toLowerCase()
RECURSIVE toLowerCase(_)
toLowerCase(text) ==
    IF Len(text) = 0 THEN ""
    ELSE LET ch == CharAt(text, 1)
             k == IndexIn(UpperCase, ch)
         IN  (IF k > 0 THEN CharAt(LowerCase, k) ELSE ch)
               \o toLowerCase(SubSeq(text, 2, Len(text)))

\* text.includes(part)
includes(text, part) ==
    \E k \in 1..(Len(text) - Len(part) + 1) : SubSeq(text, k, k + Len(part) - 1) = part

\* \d
IsDigit(ch) == IndexIn(Digits, ch) > 0

\* [:\s]
IsSeparator(ch) == ch \in {":", " ", "\t", "\n"}

\* The last position of the longest run of digits that starts at p; p - 1
\* when the character at p is not a digit.
RECURSIVE DigitRunEnd(_, _)
DigitRunEnd(text, p) ==
    IF p <= Len(text) /\ IsDigit(CharAt(text, p)) THEN DigitRunEnd(text, p + 1) ELSE p - 1

RECURSIVE SeparatorRunEnd(_, _)
SeparatorRunEnd(text, p) ==
    IF p <= Len(text) /\ IsSeparator(CharAt(text, p))
    THEN SeparatorRunEnd(text, p + 1)
    ELSE p - 1

\* parseInt of a string of decimal digits
RECURSIVE parseInt(_)
parseInt(digits) ==
    IF Len(digits) = 0 THEN 0
    ELSE 10 * parseInt(SubSeq(digits, 1, Len(digits) - 1))
           + (IndexIn(Digits, CharAt(digits, Len(digits))) - 1)

\* /word[:\s]+(\d+)/i matches at position p. The separators and the digits
\* are disjoint classes, so the greedy match is the only one.
MatchesAt(text, word, p) ==
    LET q == p + Len(word)
        s == SeparatorRunEnd(text, q)
    IN  /\ q - 1 <= Len(text)
        /\ toLowerCase(SubSeq(text, p, q - 1)) = word
        /\ s >= q
        /\ DigitRunEnd(text, s + 1) >= s + 1

\* analysis.match(/word[:\s]+(\d+)/i): the leftmost match with its group 1,
\* Null when there is none.
match(text, word) ==
    LET hits == {p \in 1..Len(text) : MatchesAt(text, word, p)}
    IN  IF hits = {} THEN Null
        ELSE LET p == CHOOSE h \in hits : \A r \in hits : h <= r
                 s == SeparatorRunEnd(text, p + Len(word))
                 e == DigitRunEnd(text, s + 1)
             IN  [whole |-> SubSeq(text, p, e),
                  group1 |-> SubSeq(text, s + 1, e)]

Min(a, b) == IF a <= b THEN a ELSE b
Max(a, b) == IF a >= b THEN a ELSE b

extractVerificationStatus(text) ==
    LET lower == toLowerCase(text)
    IN  IF includes(lower, "fake") THEN "fake"
        ELSE IF includes(lower, "real") THEN "real"
        ELSE IF includes(lower, "debunked") THEN "debunked"
        ELSE IF includes(lower, "investigating") THEN "investigating"
        ELSE "unverified"

\* match ? Math.min(100, Math.max(0, parseInt(match[1]))) : 50
extractConfidence(text) ==
    LET m == match(text, "confidence")
    IN  IF m # Null THEN Min(100, Max(0, parseInt(m.group1))) ELSE 50

extractSpread(text) ==
    LET m == match(text, "spread")
    IN  IF m # Null THEN Min(100, Max(0, parseInt(m.group1))) ELSE 50

\* An article of the news API's answer, with the region whose request it
\* answered and the two Math.random() draws made for it: the empty string
\* stands for a field the article lacks.
Article(title, description, url, region, spread, confidence) ==
    [title |-> title, description |-> description, url |-> url, region |-> region,
     spread |-> spread, confidence |-> confidence]

\* Math.floor(Math.random() * 100) and Math.random()
RandomDraws ==
    { [spread |-> 10, confidence |-> Div(0, 1)],
      [spread |-> 90, confidence |-> Div(99, 100)] }

Articles ==
    UNION { { Article("Vaccine study", "A study reports", "https://news.example/a", "US",
                      d.spread, d.confidence),
              Article("Election claim", "A post claims", "", "EU", d.spread, d.confidence),
              Article("Headline only", "", "https://news.example/c", "EU",
                      d.spread, d.confidence) } : d \in RandomDraws }

Responses == UNION {[1..n -> Articles] : n \in 0..MaxRaw}

\* stories.push({...}) for the k-th story pushed
rawStory(article, k) ==
    [id |-> IF article.url # "" THEN article.url ELSE "r" \o ToString(k),
     title |-> article.title,
     description |-> article.description,
     spread |-> article.spread,
     confidence |-> article.confidence,
     region |-> article.region,
     sources |-> IF article.url # "" THEN <<article.url>> ELSE <<>>,
     verificationStatus |-> "unverified",
     votes |-> Tally(0, 0, 0)]

fetchNewsFromMultipleRegions(articles) ==
    LET pushed == SelectSeq(articles, LAMBDA a : a.title # "" /\ a.description # "")
    IN  [k \in DOMAIN pushed |-> rawStory(pushed[k], k)]

\* What openai.chat.completions.create came to: a message with content, a
\* completion without content, or an exception.
AiOutcomes ==
    { [kind |-> "content", content |-> "Verification status: FAKE\nConfidence: 85\nSpread: 70"],
      [kind |-> "content", content |-> "Real. Confidence score: 0.9. Spread potential: 20"],
      [kind |-> "content",
       content |-> "Debunked, still investigating. confidence 0.9; SPREAD:\t120"],
      [kind |-> "empty"],
      [kind |-> "error"] }

\* { ...story, verificationStatus: ..., confidence: ..., spread: ... }
Assign(story, fields) ==
    [f \in DOMAIN story \cup DOMAIN fields |->
        IF f \in DOMAIN fields THEN fields[f] ELSE story[f]]

analyzeStoryWithAI(story, outcome) ==
    IF outcome.kind = "error" THEN story
    ELSE LET text == IF outcome.kind = "content" THEN outcome.content ELSE ""
         IN  Assign(story,
                    [verificationStatus |-> extractVerificationStatus(text),
                     confidence |-> Div(extractConfidence(text), 1),
                     spread |-> extractSpread(text)])

\* The filter callback of fetchGlobalStories: && binds tighter than ||, so the
\* three !== undefined tests go with === 'fake' only.
isStory(story) ==
    LET status == IF "verificationStatus" \in DOMAIN story
                  THEN story.verificationStatus ELSE "undefined"
    IN  \/ /\ "id" \in DOMAIN story
           /\ "title" \in DOMAIN story
           /\ "description" \in DOMAIN story
           /\ status = "fake"
        \/ status = "real"
        \/ status = "unverified"
        \/ status = "investigating"
        \/ status = "debunked"

\* story.spread || 0
SpreadOrZero(story) == IF "spread" \in DOMAIN story THEN story.spread ELSE 0

\* .sort((a, b) => (b.spread || 0) - (a.spread || 0)): stable, widest spread first
RECURSIVE sortBySpread(_)
sortBySpread(ss) ==
    IF Len(ss) = 0 THEN <<>>
    ELSE LET front == sortBySpread(SubSeq(ss, 1, Len(ss) - 1))
             last == ss[Len(ss)]
             n == Cardinality({k \in DOMAIN front :
                                  SpreadOrZero(front[k]) >= SpreadOrZero(last)})
         IN  SubSeq(front, 1, n) \o <<last>> \o SubSeq(front, n + 1, Len(front))

fetchGlobalStories(raw, outcomes) ==
    LET analyzedStories == [k \in DOMAIN raw |-> analyzeStoryWithAI(raw[k], outcomes[k])]
    IN  sortBySpread(SelectSeq(analyzedStories, isStory))

\* The stories the filter callback is called on directly: Partial<Story>.
Candidates ==
    LET whole == rawStory(Article("Vaccine study", "A study reports",
                                  "https://news.example/a", "US", 10, Div(0, 1)), 1)
        Without(s, f) == [g \in DOMAIN s \ {f} |-> s[g]]
    IN  { whole,
          [whole EXCEPT !.verificationStatus = "fake"],
          Without(whole, "verificationStatus"),
          Without([whole EXCEPT !.verificationStatus = "fake"], "id"),
          Without([whole EXCEPT !.verificationStatus = "real"], "id"),
          Without(whole, "title"),
          Without([whole EXCEPT !.verificationStatus = "debunked"], "description") }

InitFetchAi == Init

\* const rawStories = await this.fetchNewsFromMultipleRegions()
FetchNews ==
    /\ pc = "start"
    /\ pc' = "analyzing"
    /\ \E articles \in Responses : rawStories' = fetchNewsFromMultipleRegions(articles)
    /\ UNCHANGED <<stories, userVotes, loading, selectedStory, analysis, fetchedStories,
                   serviceStories, calls, callVars, completions, globalStories,
                   candidate, kept>>

\* await Promise.all(rawStories.map(...)) and the return statement
AnalyzeAndReturn ==
    /\ pc = "analyzing"
    /\ pc' = "returned"
    /\ \E outcomes \in [DOMAIN rawStories -> AiOutcomes] :
          /\ completions' = outcomes
          /\ globalStories' = fetchGlobalStories(rawStories, outcomes)
    /\ UNCHANGED <<stories, userVotes, loading, selectedStory, analysis, fetchedStories,
                   serviceStories, calls, callVars, rawStories, candidate, kept>>

\* The filter callback called on one story.
CallFilter ==
    /\ candidate = Null
    /\ \E story \in Candidates :
          /\ candidate' = story
          /\ kept' = isStory(story)
    /\ UNCHANGED <<stories, userVotes, loading, selectedStory, analysis, fetchedStories,
                   serviceStories, calls, callVars, pc, rawStories, completions,
                   globalStories>>

NextFetchAi ==
    \/ FetchNews
    \/ AnalyzeAndReturn
    \/ CallFilter

SpecFetchAi == InitFetchAi /\ [][NextFetchAi]_vars

----------------------------------------------------------------------------
(* Properties.                                                             *)

CallsFor(storyId) == {i \in DOMAIN calls : calls[i].storyId = storyId}

\* Call i is the only activation for its story that got past the guard.
OnlyCallFor(i) ==
    \A j \in CallsFor(calls[i].storyId) : j # i => calls[j].status = "returned"

NoCallInFlight == \A i \in DOMAIN calls : calls[i].status # "awaiting"

\* C1: of the handleVote calls one user issues for one story, also while an
\* earlier one still awaits updateStoryVote, at most one increments the
\* tally; the others observe AlreadyVoted.
C1_OneCallIncrements ==
    \A k \in DOMAIN stories :
        Cardinality({i \in CallsFor(stories[k].id) : calls[i].status = "voted"}) <= 1

\* C2: when updateStoryVote failed, after the call every counter of the
\* story equals its value from before the call and the story has no vote
\* record.
C2_FailedVoteRestoresTally ==
    \A i \in DOMAIN calls :
        (calls[i].status = "failed" /\ CallsFor(calls[i].storyId) = {i})
            => /\ Find(stories, calls[i].storyId).votes
                    = Find(calls[i].stories, calls[i].storyId).votes
               /\ calls[i].storyId \notin DOMAIN userVotes

\* C3: with no handleVote call in flight, every story's tally sum is its
\* fetched sum plus the number of calls for it whose updateStoryVote
\* succeeded.
C3_TallyCountsPersistedVotes ==
    NoCallInFlight =>
        \A k \in DOMAIN stories :
            TallySum(stories[k].votes)
                = TallySum(fetchedStories[k].votes)
                  + Cardinality({i \in CallsFor(stories[k].id) : calls[i].status = "voted"})

\* C4: a handleVote call for a story the user has a recorded vote on returns
\* without calling updateStoryVote and leaves the tallies, the vote records,
\* the analysis and the store unchanged.
C4_SecondVoteIsNoOp ==
    [][ \A k \in DOMAIN stories :
          ( /\ stories[k].id \in DOMAIN userVotes
            /\ Len(calls') = Len(calls) + 1
            /\ calls'[Len(calls')].storyId = stories[k].id )
          => /\ calls'[Len(calls')].status = "returned"
             /\ UNCHANGED <<stories, userVotes, analysis, serviceStories>> ]_vars

C4_Witness ==
    \E i \in DOMAIN calls :
        /\ calls[i].status = "returned"
        /\ calls[i].storyId \in DOMAIN calls[i].userVotes
        /\ userVotes = calls[i].userVotes
        /\ Find(stories, calls[i].storyId) = Find(calls[i].stories, calls[i].storyId)

\* C5: a vote record, once set after a successful updateStoryVote, is never
\* removed or changed by a later event.
C5_VoteRecordPermanent ==
    [][ \A s \in DOMAIN userVotes :
          s \in DOMAIN userVotes' /\ userVotes'[s] = userVotes[s] ]_vars

\* C6: all three vote counters of every story are non-negative in every
\* reachable state.
C6_CountersNonNegative ==
    \A k \in DOMAIN stories, v \in VoteTypes : stories[k].votes[v] >= 0

\* C7: while updateStoryVote is pending for a not-yet-voted story, the
\* incremented tally and the vote record are already observable.
C7_OptimisticBeforePersist ==
    \A i \in DOMAIN calls :
        (calls[i].status = "awaiting" /\ CallsFor(calls[i].storyId) = {i})
            => /\ calls[i].storyId \in DOMAIN userVotes
               /\ Find(stories, calls[i].storyId).votes[calls[i].voteType]
                    = Find(calls[i].stories, calls[i].storyId).votes[calls[i].voteType] + 1

\* C8: the re-analysis a successful handleVote triggers has as its Community
\* Consensus score credible/total of the post-vote counters.
C8_ReanalysisUsesPostVoteTally ==
    [][ \A i \in DOMAIN calls :
          (calls[i].status = "awaiting" /\ calls'[i].status = "voted")
          => LET post == Find(stories', calls[i].storyId).votes
             IN  /\ analysis' # Null
                 /\ analysis'.explanation.factors[3].score
                      = Div(post.credible, TallySum(post)) ]_vars

\* C9: handleVote calls for different stories do not interfere: when both
\* persisted, each story's chosen counter is incremented exactly once, the
\* other counters are as fetched and both vote records are present; and a
\* call returns at the guard only when its own story has a vote record.
C9_DifferentStoriesIndependent ==
    /\ \A i, j \in DOMAIN calls :
         ( /\ calls[i].storyId # calls[j].storyId
           /\ calls[i].status = "voted" /\ calls[j].status = "voted"
           /\ OnlyCallFor(i) /\ OnlyCallFor(j) )
         => /\ Find(stories, calls[i].storyId).votes
                 = [Find(fetchedStories, calls[i].storyId).votes
                      EXCEPT ![calls[i].voteType] = @ + 1]
            /\ calls[i].storyId \in DOMAIN userVotes
            /\ userVotes[calls[i].storyId] = calls[i].voteType
    /\ \A i \in DOMAIN calls :
         calls[i].status = "returned" => calls[i].storyId \in DOMAIN calls[i].userVotes

\* Two calls for different stories, the second issued while the first was
\* awaiting updateStoryVote, both persisted.
C9_Witness ==
    \E i, j \in DOMAIN calls :
        /\ i < j
        /\ calls[i].storyId # calls[j].storyId
        /\ calls[i].status = "voted" /\ calls[j].status = "voted"
        /\ calls[i].storyId \notin DOMAIN calls[j].userVotes

\* C10: a call that failed in persistence leaves no vote record, so a call
\* issued after it is not rejected, and when that retry persists, the tally
\* ends exactly one above its value from before the first attempt.
C10_RetryAfterFailure ==
    \A i, j \in DOMAIN calls :
        ( /\ i \in calls[j].settled
          /\ CallsFor(calls[i].storyId) = {i, j}
          /\ calls[i].status = "failed" /\ calls[j].status = "voted" )
        => TallySum(Find(stories, calls[i].storyId).votes)
             = TallySum(Find(fetchedStories, calls[i].storyId).votes) + 1

\* C11: a vote for a storyId that matches no story of the Story Store (the
\* service's own list) ends in a NotFound error: no such call completes as a
\* vote, and no tally or vote record changes.
C11_UnknownStoryIsNotFound ==
    \A i \in DOMAIN calls :
        calls[i].status = "voted" => Find(serviceStories, calls[i].storyId) # Null

\* C12: when updateStoryVote failed, what handleVote hands its caller differs
\* from what it hands it on success, and the tally and vote records are as
\* before the call.
C12_FailureIsReported ==
    /\ \A i, j \in DOMAIN calls :
         (calls[i].status = "failed" /\ calls[j].status = "voted")
             => calls[i].result # calls[j].result
    /\ \A i \in DOMAIN calls :
         (calls[i].status = "failed" /\ CallsFor(calls[i].storyId) = {i})
             => /\ Find(stories, calls[i].storyId).votes
                     = Find(calls[i].stories, calls[i].storyId).votes
                /\ calls[i].storyId \notin DOMAIN userVotes

\* text.includes(part)
Contains(text, part) ==
    \E k \in 1..(Len(text) - Len(part) + 1) : SubSeq(text, k, k + Len(part) - 1) = part

Analyzed == output # Null

\* C13: for every story analyzeStoryContent returns exactly three factors,
\* named 'Source Reliability', 'Spread Analysis', 'Community Consensus' in
\* this order.
C13_ThreeFactorsInOrder ==
    Analyzed =>
        LET fs == output.explanation.factors
        IN  /\ Len(fs) = 3
            /\ fs[1].name = "Source Reliability"
            /\ fs[2].name = "Spread Analysis"
            /\ fs[3].name = "Community Consensus"

\* A story with no source and no vote has been analysed.
C13_Witness ==
    /\ Analyzed
    /\ input.sources = <<>>
    /\ TallySum(input.votes) = 0
    /\ Len(output.explanation.factors) = 3

\* C14: for a story whose three counters are 0 the Community Consensus
\* factor has the score 0, a defined number, and a 'no votes yet'
\* description.
C14_NoVotesFallback ==
    (Analyzed /\ input.votes = Tally(0, 0, 0)) =>
        LET f == output.explanation.factors[3]
        IN  /\ f.score.kind = "finite"
            /\ f.score.num = 0
            /\ Contains(f.description, "no votes yet")

\* C15: for a story with non-negative counters and a positive total the
\* Community Consensus score is credible / (credible + suspicious + fake)
\* and lies in [0,1].
C15_ConsensusIsCredibleShare ==
    (Analyzed /\ TallySum(input.votes) > 0) =>
        LET score == output.explanation.factors[3].score
        IN  /\ score.kind = "finite"
            /\ score.den > 0
            /\ score.num * TallySum(input.votes) = input.votes.credible * score.den
            /\ 0 <= score.num /\ score.num <= score.den

\* The tally 45/20/5 has been analysed: 45/70 = 9/14.
C15_Witness ==
    /\ Analyzed
    /\ input.votes = Tally(45, 20, 5)
    /\ output.explanation.factors[3].score = [kind |-> "finite", num |-> 9, den |-> 14]

ConclusionClass(status) ==
    IF status \in {"fake", "real"} THEN status ELSE "other"

\* C16: the conclusion is a 3-way function of verificationStatus: 'fake'
\* gives a message with 'identified as false', 'real' one with 'verified as
\* true', the three other statuses one and the same message with 'under
\* investigation', and the three messages differ pairwise.
C16_ConclusionThreeWay ==
    Analyzed =>
        /\ Contains(output.explanation.conclusion,
                    CASE input.verificationStatus = "fake" -> "identified as false"
                      [] input.verificationStatus = "real" -> "verified as true"
                      [] OTHER -> "under investigation")
        /\ \A other \in VerificationStatuses :
             (output.explanation.conclusion
                = analyzeStoryContent([input EXCEPT !.verificationStatus = other])
                    .explanation.conclusion)
             <=> ConclusionClass(other) = ConclusionClass(input.verificationStatus)

C16_Witness ==
    /\ Analyzed
    /\ input.verificationStatus = "debunked"
    /\ Contains(output.explanation.conclusion, "under investigation")

\* C17: the Source Reliability score is 0.8 exactly when the story has more
\* than one source, and 0.4 otherwise, with no source or one source.
C17_SourceReliabilityScore ==
    Analyzed =>
        LET score == output.explanation.factors[1].score
        IN  /\ score.kind = "finite"
            /\ 10 * score.num = (IF Len(input.sources) > 1 THEN 8 ELSE 4) * score.den

C17_Witness ==
    /\ Analyzed
    /\ Len(input.sources) = 1
    /\ output.explanation.factors[1].score = [kind |-> "finite", num |-> 2, den |-> 5]

\* C18: the Source Reliability description states the number of sources,
\* followed by 'source' exactly when the number is 1 and by 'sources' for
\* every other number, 0 included.
C18_SourcePluralization ==
    Analyzed =>
        output.explanation.factors[1].description
            = "Story has " \o ToString(Len(input.sources))
                \o (IF Len(input.sources) = 1 THEN " source" ELSE " sources")

\* C19: sentiment is -0.8 exactly when verificationStatus is 'fake' and 0.6
\* for the four other statuses.
C19_SentimentBinary ==
    Analyzed =>
        /\ output.sentiment.kind = "finite"
        /\ 10 * output.sentiment.num
             = (IF input.verificationStatus = "fake" THEN -8 ELSE 6) * output.sentiment.den

C19_Witness ==
    /\ Analyzed
    /\ input.verificationStatus = "debunked"
    /\ output.sentiment = [kind |-> "finite", num |-> 3, den |-> 5]

\* C20: entities is the region followed by all sources in their order,
\* duplicates kept; topics is [category, 'Misinformation', 'Fact Checking'];
\* credibilityScore is the story's confidence.
C20_EntitiesTopicsScore ==
    Analyzed =>
        /\ Len(output.entities) = 1 + Len(input.sources)
        /\ output.entities[1] = input.region
        /\ \A k \in DOMAIN input.sources : output.entities[k + 1] = input.sources[k]
        /\ output.topics = <<input.category, "Misinformation", "Fact Checking">>
        /\ output.credibilityScore = input.confidence

\* A story that names one source twice has been analysed.
C20_Witness ==
    /\ Analyzed
    /\ Len(input.sources) = 2
    /\ input.sources[1] = input.sources[2]
    /\ Len(output.entities) = 3

\* The integer Math.round yields for 100 * n / d, d > 0: the r with
\* r - 1/2 <= 100 * n / d < r + 1/2.
IsRoundedPercent(r, n, d) ==
    /\ 2 * d * r <= 200 * n + d
    /\ 200 * n + d < 2 * d * (r + 1)

\* C21: the evidence is exactly three strings in fixed order: the
\* verification status label, the confidence as round(confidence * 100)
\* percent, and the category label.
C21_EvidenceThreeStrings ==
    Analyzed =>
        LET ev == output.explanation.evidence
        IN  /\ Len(ev) = 3
            /\ ev[1] = "Verification Status: " \o input.verificationStatus
            /\ \E r \in 0..100 :
                 /\ IsRoundedPercent(r, input.confidence.num, input.confidence.den)
                 /\ ev[2] = "Confidence Score: " \o ToString(r) \o "%"
            /\ ev[3] = "Category: " \o input.category

\* The confidence 0.625 has been analysed: 62.5 is rounded up to 63.
C21_Witness ==
    /\ Analyzed
    /\ input.confidence = Div(5, 8)
    /\ output.explanation.evidence[2] = "Confidence Score: 63%"

\* C23: the Community Consensus description states round(100 * credible /
\* total) as an integer percentage and the Spread Analysis score is
\* 1 - spread/100; for two sources, spread 60 and the tally 45/20/5 the
\* scores are 0.8, 0.4 and 45/70 (0.643 to three decimals) and the
\* description shows 64%.
C23_PercentagesAndScenario ==
    Analyzed =>
        LET fs == output.explanation.factors
        IN  /\ fs[2].score.kind = "finite"
            /\ 100 * fs[2].score.num = (100 - input.spread) * fs[2].score.den
            /\ TallySum(input.votes) > 0 =>
                 \E r \in 0..100 :
                    /\ IsRoundedPercent(r, input.votes.credible, TallySum(input.votes))
                    /\ fs[3].description = ToString(r) \o "% of voters find it credible"
            /\ ( /\ Len(input.sources) = 2
                 /\ input.spread = 60
                 /\ input.votes = Tally(45, 20, 5) )
               => /\ fs[1].score = [kind |-> "finite", num |-> 4, den |-> 5]
                  /\ fs[2].score = [kind |-> "finite", num |-> 2, den |-> 5]
                  /\ fs[3].score = [kind |-> "finite", num |-> 9, den |-> 14]
                  /\ (2000 * fs[3].score.num + fs[3].score.den)
                        \div (2 * fs[3].score.den) = 643
                  /\ fs[3].description = "64% of voters find it credible"

C23_Witness ==
    /\ Analyzed
    /\ Len(input.sources) = 2
    /\ input.spread = 60
    /\ input.votes = Tally(45, 20, 5)
    /\ output.explanation.factors[3].description = "64% of voters find it credible"

\* C24: a successful handleVote(storyId, voteType) changes exactly one
\* counter: votes[voteType] of the story with that id grows by 1; its other
\* counters and fields and every other story stay as they are.
C24_SuccessChangesOneCounter ==
    [][ \A i \in DOMAIN calls :
          (calls[i].status = "awaiting" /\ calls'[i].status = "voted")
          => /\ DOMAIN stories' = DOMAIN stories
             /\ \A k \in DOMAIN stories :
                  IF stories[k].id = calls[i].storyId
                  THEN /\ stories'[k].votes[calls[i].voteType]
                            = stories[k].votes[calls[i].voteType] + 1
                       /\ \A v \in VoteTypes \ {calls[i].voteType} :
                            stories'[k].votes[v] = stories[k].votes[v]
                       /\ [stories'[k] EXCEPT !.votes = stories[k].votes] = stories[k]
                  ELSE stories'[k] = stories[k] ]_vars

C24_Witness ==
    \E i \in DOMAIN calls :
        /\ calls[i].status = "voted"
        /\ CallsFor(calls[i].storyId) = {i}
        /\ Find(stories, calls[i].storyId).votes[calls[i].voteType]
             = Find(fetchedStories, calls[i].storyId).votes[calls[i].voteType] + 1

\* C25: a vote whose updateStoryVote succeeded is recorded in the Story
\* Store: the store holds the story with votes[voteType] one higher, and a
\* later fetchGlobalStories returns the story with the incremented count.
C25_VoteReachesStore ==
    \A i \in DOMAIN calls :
        (calls[i].status = "voted" /\ CallsFor(calls[i].storyId) = {i})
            => /\ Find(serviceStories, calls[i].storyId) # Null
               /\ Find(serviceStories, calls[i].storyId).votes[calls[i].voteType]
                    = Find(fetchedStories, calls[i].storyId).votes[calls[i].voteType] + 1
               /\ \E result \in FetchResults :
                    /\ Find(result, calls[i].storyId) # Null
                    /\ Find(result, calls[i].storyId).votes[calls[i].voteType]
                         = Find(fetchedStories, calls[i].storyId).votes[calls[i].voteType] + 1

\* The parts of an analysis that do not depend on the tally are those of
\* the given story.
AnalysisOf(result, story) ==
    LET own == analyzeStoryContent(story)
    IN  /\ result.sentiment = own.sentiment
        /\ result.topics = own.topics
        /\ result.entities = own.entities
        /\ result.credibilityScore = own.credibilityScore
        /\ result.explanation.factors[1] = own.explanation.factors[1]
        /\ result.explanation.factors[2] = own.explanation.factors[2]
        /\ result.explanation.evidence = own.explanation.evidence
        /\ result.explanation.conclusion = own.explanation.conclusion

\* C26: whenever an analysis is held while a story is selected, it was
\* computed from the selected story.
C26_AnalysisBelongsToSelection ==
    (selectedStory # Null /\ analysis # Null) => AnalysisOf(analysis, selectedStory)

\* C27: provided every updateStoryVote call settles, every handleVote call
\* that passed the already-voted check eventually finishes, either with the
\* vote recorded or with the failure path run.
C27_EveryCallFinishes ==
    \A i \in 1..MaxFairCalls :
        [] ( (i \in DOMAIN calls /\ calls[i].status = "awaiting")
             => <> (i \in DOMAIN calls /\ calls[i].status \in {"voted", "failed"}) )

C27_Witness ==
    \E i \in DOMAIN calls :
        /\ calls[i].status = "failed"
        /\ calls[i].result # Pending
        /\ calls[i].storyId \notin DOMAIN userVotes

\* C28: the explanation of the alert that fetchAlerts builds from a story is
\* the explanation analyzeStoryContent returns for that story: the same three
\* factors, the same three evidence strings and the same conclusion.
C28_AlertExplanationMatches ==
    (output # Null /\ alert # Null) =>
        /\ alert.explanation.factors = output.explanation.factors
        /\ alert.explanation.evidence = output.explanation.evidence
        /\ alert.explanation.conclusion = output.explanation.conclusion
        /\ DOMAIN alert.explanation = DOMAIN output.explanation

C28_Witness ==
    /\ output # Null
    /\ alert # Null
    /\ input.verificationStatus = "real"
    /\ Len(input.sources) = 2
    /\ TallySum(input.votes) > 0
    /\ alert.severity = "medium"

\* C29: every story the AI-backed fetchGlobalStories returns has a confidence
\* between 0 and 1, whether its completion had a number after 'confidence',
\* had none, or failed.
C29_ConfidenceInUnitInterval ==
    pc = "returned" =>
        \A k \in DOMAIN globalStories :
            LET c == globalStories[k].confidence
            IN  c.kind = "finite" /\ 0 <= c.num /\ c.num <= c.den

\* C30: every story the AI-backed fetchGlobalStories returns has an id, a
\* title, a description and one of the five verification statuses; and the
\* filter callback rejects a story without id, title or description whatever
\* its verification status.
C30_FilterKeepsWholeStories ==
    /\ pc = "returned" =>
          \A k \in DOMAIN globalStories :
              /\ {"id", "title", "description", "verificationStatus"}
                    \subseteq DOMAIN globalStories[k]
              /\ globalStories[k].verificationStatus \in VerificationStatuses
    /\ (candidate # Null /\ ~({"id", "title", "description"} \subseteq DOMAIN candidate))
          => ~kept

====
